---- MODULE Spec2Model ----
(***************************************************************************)
(* Model of the viseme scheduler (lib/visemeScheduler.ts): the chunk queue, *)
(* the playback clock, the timeline builder, the Catmull-Rom interpolator,  *)
(* the crossfade, the spring filter and the idle relaxation; and of three    *)
(* pieces of the page around it: the version gate of the slides pane        *)
(* (SlidesPane), the endpoint fallback of the socket (lib/ws.ts openWS with *)
(* its wiring in the chat component) and push-to-talk (usePTT).             *)
(*                                                                          *)
(* Numbers.  JavaScript numbers are modelled in fixed point:                *)
(*   - times are integers in milliseconds (the code uses seconds);          *)
(*   - pose values are integers in units of 1/One (One is 1.0);             *)
(*   - NaN is one distinguished value that every arithmetic operation       *)
(*     propagates and every comparison answers FALSE on; reading an array   *)
(*     past its end (undefined) behaves as NaN in arithmetic.               *)
(* Wall-clock time is kept relative: the model stores now - lastTick,       *)
(* now - ch.startedAt and each timer's remaining delay, and Tick advances   *)
(* all of them together.                                                    *)
(***************************************************************************)
EXTENDS Integers, Sequences, FiniteSets, TLC

\* ------------------------------------------------------------------ bounds
MaxChunks == 2        \* pushChunk calls in one run
MaxFrames == 2        \* getFrame calls in one run
MaxTimesN == 4        \* frames of a chunk handed to buildTimes alone
MaxVersion == 4       \* slides versions 1..MaxVersion arrive
MaxRecordings == 2    \* startPTT calls in one run

\* ------------------------------------------------------- program constants
COLS == 15
One == 100
NaN == -1000000
MinDurMs == 20        \* Math.max(0.02, ...)
TimerEpsMs == 10      \* setTimeout(..., Math.round(ch.duration * 1000) + 10)
CrossfadeMs == 85     \* crossfadeS default 0.085
DtMinMs == 1          \* Math.max(0.001, ...)
DtMaxMs == 33         \* Math.min(0.033, ...)
FallbackMetaMs == 500 \* onMeta's last resort 0.5

NoChunk == 0

\* ------------------------------------------------------------ number model
IsNaN(x) == x = NaN
Min2(a, b) == IF a < b THEN a ELSE b
Max2(a, b) == IF a > b THEN a ELSE b
\* a < b as JavaScript compares: FALSE when either side is NaN
Lt(a, b) == ~IsNaN(a) /\ ~IsNaN(b) /\ a < b
\* Number(v) || 0
NumOrZero(v) == IF IsNaN(v) THEN 0 ELSE v
\* arr[i] of a typed array, i 0-based: undefined past the end
At(arr, i) == IF i >= 0 /\ i < Len(arr) THEN arr[i + 1] ELSE NaN
\* arr[arr.length - 1] || 0
TailOrZero(arr) == NumOrZero(At(arr, Len(arr) - 1))

clamp01(x) == IF Lt(x, 0) THEN 0 ELSE IF Lt(One, x) THEN One ELSE x

\* ------------------------------------------------------------- buildTimes
RECURSIVE fixTimes(_, _, _, _)
\* the loop of the viseme_times branch: i is 1-based, prev the last output
fixTimes(t, i, prev, out) ==
    IF i > Len(t) THEN out
    ELSE LET raw == IF IsNaN(t[i]) THEN prev ELSE t[i]
             v   == Max2(0, raw)
             o   == IF v < prev THEN prev ELSE v
         IN  fixTimes(t, i + 1, o, Append(out, o))

\* buildTimes trying viseme_fps before frame_ms
buildTimesFpsFirst(framesN, msg) ==
    IF Len(msg.viseme_times) >= 2
    THEN fixTimes(SubSeq(msg.viseme_times, 1, Min2(framesN, Len(msg.viseme_times))),
                  1, 0, <<>>)
    ELSE IF Lt(0, msg.viseme_fps)
    THEN [i \in 1..framesN |-> ((i - 1) * 1000) \div msg.viseme_fps]
    ELSE IF Lt(0, msg.frame_ms)
    THEN [i \in 1..framesN |-> (i - 1) * msg.frame_ms]
    ELSE LET durS == Max2(MinDurMs, NumOrZero(msg.duration_ms))
         IN  [i \in 1..framesN |->
                 IF framesN > 1 THEN ((i - 1) * durS) \div (framesN - 1)
                 ELSE (i - 1) * durS]

\* buildTimes without the 20 ms floor of the duration fallback
buildTimesNoFloor(framesN, msg) ==
    IF Len(msg.viseme_times) >= 2
    THEN fixTimes(SubSeq(msg.viseme_times, 1, Min2(framesN, Len(msg.viseme_times))),
                  1, 0, <<>>)
    ELSE IF Lt(0, msg.frame_ms)
    THEN [i \in 1..framesN |-> (i - 1) * msg.frame_ms]
    ELSE IF Lt(0, msg.viseme_fps)
    THEN [i \in 1..framesN |-> ((i - 1) * 1000) \div msg.viseme_fps]
    ELSE LET durS == Max2(0, NumOrZero(msg.duration_ms))
         IN  [i \in 1..framesN |->
                 IF framesN > 1 THEN ((i - 1) * durS) \div (framesN - 1)
                 ELSE (i - 1) * durS]

\* msg: [viseme_times: Seq (<<>> when absent), frame_ms, viseme_fps,
\*       duration_ms: numbers in ms / Hz, 0 when absent]
buildTimes(framesN, msg) ==
    IF Len(msg.viseme_times) >= 2
    THEN fixTimes(SubSeq(msg.viseme_times, 1, Min2(framesN, Len(msg.viseme_times))),
                  1, 0, <<>>)
    ELSE IF Lt(0, msg.frame_ms)
    THEN [i \in 1..framesN |-> (i - 1) * msg.frame_ms]
    ELSE IF Lt(0, msg.viseme_fps)
    THEN [i \in 1..framesN |-> ((i - 1) * 1000) \div msg.viseme_fps]
    ELSE LET durS == Max2(MinDurMs, NumOrZero(msg.duration_ms))
         IN  [i \in 1..framesN |->
                 IF framesN > 1 THEN ((i - 1) * durS) \div (framesN - 1)
                 ELSE (i - 1) * durS]

\* ------------------------------------------------------------ interpolation
UOne == 100           \* fixed-point 1.0 of the spline parameter u

\* a + (b - a) * clamp(t, 0, 1) with t = num / den
lerp(a, b, num, den) ==
    IF IsNaN(a) \/ IsNaN(b) THEN NaN
    ELSE LET n == IF num < 0 THEN 0 ELSE IF num > den THEN den ELSE num
         IN  a + ((b - a) * n) \div den

\* u is in units of 1/UOne
catmullRom(p0, p1, p2, p3, u) ==
    IF IsNaN(p0) \/ IsNaN(p1) \/ IsNaN(p2) \/ IsNaN(p3) \/ IsNaN(u) THEN NaN
    ELSE ( (2 * p1) * UOne * UOne * UOne
           + (p2 - p0) * u * UOne * UOne
           + (2 * p0 - 5 * p1 + 4 * p2 - p3) * u * u * UOne
           + (3 * p1 - p0 - 3 * p2 + p3) * u * u * u )
         \div (2 * UOne * UOne * UOne)

RECURSIVE lbLoop(_, _, _, _)
lbLoop(arr, t, lo, hi) ==
    IF lo <= hi
    THEN LET mid == (lo + hi) \div 2
         IN  IF Lt(At(arr, mid), t) THEN lbLoop(arr, t, mid + 1, hi)
             ELSE lbLoop(arr, t, lo, mid - 1)
    ELSE lo

\* 0-based index of the bracket's right end
lowerBound(arr, t) ==
    Max2(1, Min2(Len(arr) - 1, lbLoop(arr, t, 0, Len(arr) - 1)))

\* ch.frames[i] || ch.frames[dflt], both 0-based
FrameOr(frames, i, dflt) ==
    IF i >= 0 /\ i < Len(frames) THEN frames[i + 1] ELSE frames[dflt + 1]

\* sampleCatmullRom that holds the bracket's left frame (u is always 0)
sampleHold(ch, t) ==
    LET i1 == lowerBound(ch.times, t)
        f0 == FrameOr(ch.frames, i1 - 1, 0)
    IN  [i \in 1..COLS |-> clamp01(At(f0, i - 1))]

\* the target pose of chunk ch at time t (ms): a row of COLS values
sampleCatmullRom(ch, t) ==
    LET times == ch.times
        i1  == lowerBound(times, t)
        i0  == i1 - 1
        i2  == Min2(i1 + 1, Len(ch.frames) - 1)
        i_1 == Max2(i0 - 1, 0)
        t0  == At(times, i0)
        t1  == At(times, i1)
        u   == IF Lt(t0, t1) THEN ((t - t0) * UOne) \div (t1 - t0) ELSE 0
        f_1 == FrameOr(ch.frames, i_1, 0)
        f0  == FrameOr(ch.frames, i0, 0)
        f1  == FrameOr(ch.frames, i1, Len(ch.frames) - 1)
        f2  == FrameOr(ch.frames, i2, Len(ch.frames) - 1)
    IN  [i \in 1..COLS |->
            clamp01(catmullRom(At(f_1, i - 1), At(f0, i - 1),
                               At(f1, i - 1), At(f2, i - 1), u))]

\* ------------------------------------------------------------ spring filter
W2Jaw == 3948         \* (2 pi freqJaw)^2,  freqJaw 10.0
W2Base == 2221        \* (2 pi freqBase)^2, freqBase 7.5
DampJaw == 106        \* 2 zeta (2 pi freqJaw),  zeta 0.84
DampBase == 79        \* 2 zeta (2 pi freqBase)
ExagPct == 104        \* exaggeration 1.04, in percent

\* Math.exp(-neutralDecayPerSec * dt) in 1/1000, dt in ms (1..33):
\* the series 1 - x + x^2/2 with x = dt/1000
decayK(dt) == 1000 - dt + (dt * dt) \div 2000

\* one channel of the idle relaxation: x *= k
relax(x, k) ==
    IF IsNaN(x) THEN NaN
    ELSE IF x < 0 THEN 0 - (((0 - x) * k) \div 1000)
    ELSE (x * k) \div 1000

\* one channel of the spring step: <<pos', vel'>>
spring(i, target, p, v, dt) ==
    IF IsNaN(target) \/ IsNaN(p) \/ IsNaN(v) THEN <<NaN, NaN>>
    ELSE LET w2  == IF i = 1 THEN W2Jaw ELSE W2Base
             c   == IF i = 1 THEN DampJaw ELSE DampBase
             acc == w2 * (target - p) - c * v
             v2  == v + (acc * dt) \div 1000
             p2  == p + (v2 * dt) \div 1000
         IN  <<clamp01((p2 * ExagPct) \div 100), v2>>

\* ------------------------------------------------------------------- state
VARIABLES
    queue,      \* pending chunks (ids), head first
    active,     \* the active chunk's id, or NoChunk (null)
    muted,      \* the mute flag
    chunks,     \* the Chunk objects ever created, by id (closures keep them)
    audio,      \* each chunk's HTMLAudioElement, by id
    timers,     \* each chunk's fallback timer: ms left, 0 due, -1 none
    pos,        \* filtered pose, COLS values
    vel,        \* filtered velocity, COLS values
    sinceTick,  \* now - lastTick, capped at DtMaxMs
    nFrames,    \* getFrame calls so far
    lastOp,     \* the operation of the scheduler object that was called last
    tIn,        \* buildTimes alone: its input
    tOut        \* buildTimes alone: its result

VARIABLES
    versionRef, \* SlidesPane: versionRef.current, the applied slides version
    queuedAI,   \* SlidesPane: the queued update's version, or NoQueued (null)
    incoming,   \* SlidesPane: the incoming prop's version, 0 without one
    userActive, \* SlidesPane: Date.now() - lastEditTsRef.current < 900
    wsCandidates, \* openWS: candidates.length, 0 before the thread id is known
    wsIdx,      \* openWS: idx
    sockets,    \* openWS: the WebSocket objects created, by number
    wsRef,      \* chat component: wsRef.current (a socket's number, 0 null)
    connected,  \* chat component: the connected state
    unmounted,  \* chat component: the unmounted flag of the wiring effect
    wsLog,      \* the handler calls openWS has made: "open" / "close"
    micState,   \* usePTT: micState
    micWait,    \* usePTT: startPTT calls waiting in ensureMic()
    recs,       \* usePTT: the MediaRecorder objects created, by number
    recorderRef, \* usePTT: recorder.current (a recorder's number, 0 null)
    recChunks,  \* usePTT: chunks.current, each blob by its recorder's number
    pttSent     \* usePTT: the onSend calls made

slidesVars == <<versionRef, queuedAI, incoming, userActive>>
wsVars == <<wsCandidates, wsIdx, sockets, wsRef, connected, unmounted, wsLog>>
pttVars == <<micState, micWait, recs, recorderRef, recChunks, pttSent>>
appVars == <<slidesVars, wsVars, pttVars>>

vars == <<queue, active, muted, chunks, audio, timers, pos, vel, sinceTick,
          nFrames, lastOp, tIn, tOut, appVars>>
schedVars == <<queue, active, muted, chunks, audio, timers, pos, vel,
               sinceTick, nFrames, lastOp>>

TickMs == 20          \* the clock advances in steps of TickMs
ClockCap == 90        \* now - startedAt is kept up to ClockCap (>= CrossfadeMs)
AudioLenMs == 30      \* the length of every audio payload
Inf == 1000000        \* a duration that is not finite (Infinity)

ZeroPose == [i \in 1..COLS |-> 0]

\* a new HTMLAudioElement (also the placeholder of a chunk without one)
NewAudio == [meta |-> "none", duration |-> 0, currentTime |-> 0,
             play |-> "paused", onMeta |-> FALSE, onended |-> FALSE]

\* audioEl.pause()
pause(a) == IF a.play \in {"pending", "playing"} THEN [a EXCEPT !.play = "paused"]
            ELSE a

\* the scheduler's closure state that startNext and its callbacks touch
Sched == [queue |-> queue, active |-> active, chunks |-> chunks,
          audio |-> audio, timers |-> timers]

\* begin(durEl) that keeps the raw axis as it is
beginNoRescale(S, id, durEl, m, p) ==
    LET ch      == S.chunks[id]
        times   == ch.timesRaw
        lastT   == NumOrZero(At(times, Len(times) - 1))
        dur     == IF lastT # 0 THEN lastT ELSE Max2(MinDurMs, durEl)
        ch2     == [ch EXCEPT !.times = times, !.duration = dur,
                              !.sinceStart = 0, !.fadeInFrom = p,
                              !.begun = TRUE]
    IN  IF ch.audioEl /\ ~m
        THEN [S EXCEPT !.chunks[id] = ch2,
                       !.audio[id].play = "pending",
                       !.audio[id].onended = TRUE]
        ELSE [S EXCEPT !.chunks[id] = ch2,
                       !.timers[id] = dur + TimerEpsMs]

\* begin(durEl) that arms no timer for a chunk without frames
beginSkipsEmpty(S, id, durEl, m, p) ==
    LET ch      == S.chunks[id]
        rawTail == TailOrZero(ch.timesRaw)
        times   == IF rawTail > 0
                   THEN [i \in 1..Len(ch.timesRaw) |->
                            (ch.timesRaw[i] * durEl) \div rawTail]
                   ELSE ch.timesRaw
        lastT   == NumOrZero(At(times, Len(times) - 1))
        dur     == IF lastT # 0 THEN lastT ELSE Max2(MinDurMs, durEl)
        ch2     == [ch EXCEPT !.times = times, !.duration = dur,
                              !.sinceStart = 0, !.fadeInFrom = p,
                              !.begun = TRUE]
    IN  IF ch.audioEl /\ ~m
        THEN [S EXCEPT !.chunks[id] = ch2,
                       !.audio[id].play = "pending",
                       !.audio[id].onended = TRUE]
        ELSE IF Len(ch.frames) = 0
        THEN [S EXCEPT !.chunks[id] = ch2]
        ELSE [S EXCEPT !.chunks[id] = ch2,
                       !.timers[id] = dur + TimerEpsMs]

\* begin(durEl) of chunk id, under mute flag m and filtered pose p
begin(S, id, durEl, m, p) ==
    LET ch      == S.chunks[id]
        rawTail == TailOrZero(ch.timesRaw)
        times   == IF rawTail > 0
                   THEN [i \in 1..Len(ch.timesRaw) |->
                            (ch.timesRaw[i] * durEl) \div rawTail]
                   ELSE ch.timesRaw
        lastT   == NumOrZero(At(times, Len(times) - 1))
        dur     == IF lastT # 0 THEN lastT ELSE Max2(MinDurMs, durEl)
        ch2     == [ch EXCEPT !.times = times, !.duration = dur,
                              !.sinceStart = 0, !.fadeInFrom = p,
                              !.begun = TRUE]
    IN  IF ch.audioEl /\ ~m
        THEN [S EXCEPT !.chunks[id] = ch2,
                       !.audio[id].play = "pending",
                       !.audio[id].onended = TRUE]
        ELSE [S EXCEPT !.chunks[id] = ch2,
                       !.timers[id] = dur + TimerEpsMs]

\* the loadedmetadata listener of chunk id
onMeta(S, id, m, p) ==
    LET ch == S.chunks[id]
        el == S.audio[id]
        d  == IF el.duration # Inf /\ el.duration > 0 THEN el.duration
              ELSE IF ch.duration # 0 THEN ch.duration
              ELSE IF TailOrZero(ch.timesRaw) # 0 THEN TailOrZero(ch.timesRaw)
              ELSE FallbackMetaMs
    IN  begin([S EXCEPT !.audio[id].onMeta = FALSE], id, d, m, p)

\* startNext without its guard on an active chunk
startNextNoGuard(S, m, p) ==
    IF S.queue = <<>> THEN S
    ELSE LET id == Head(S.queue)
             ch == S.chunks[id]
             S1 == [S EXCEPT !.queue = Tail(S.queue), !.active = id]
         IN  IF ch.audioEl /\ ~m
             THEN LET S2 == [S1 EXCEPT !.audio[id].onMeta = TRUE]
                  IN  IF S.audio[id].duration > 0 THEN onMeta(S2, id, m, p)
                      ELSE S2
             ELSE begin(S1, id,
                        IF ch.duration # 0 THEN ch.duration
                        ELSE TailOrZero(ch.timesRaw),
                        m, p)

startNext(S, m, p) ==
    IF S.active # NoChunk \/ S.queue = <<>> THEN S
    ELSE LET id == Head(S.queue)
             ch == S.chunks[id]
             S1 == [S EXCEPT !.queue = Tail(S.queue), !.active = id]
         IN  IF ch.audioEl /\ ~m
             THEN LET S2 == [S1 EXCEPT !.audio[id].onMeta = TRUE]
                  IN  IF S.audio[id].duration > 0 THEN onMeta(S2, id, m, p)
                      ELSE S2
             ELSE begin(S1, id,
                        IF ch.duration # 0 THEN ch.duration
                        ELSE TailOrZero(ch.timesRaw),
                        m, p)

\* a completion callback that does not call startNext
completeNoNext(S, id, m, p) ==
    [S EXCEPT !.chunks[id].done = TRUE, !.active = NoChunk]

\* the completion callback of chunk id (the timer's and onended's body)
complete(S, id, m, p) ==
    startNext([S EXCEPT !.chunks[id].done = TRUE, !.active = NoChunk], m, p)

\* Chunk id is still referenced in S: by the queue, by active, by a pending
\* timer, by a loadedmetadata listener that can still be called, or by the
\* onended handler of an element that can still reach its end.
Live(S, id) ==
    \/ S.active = id
    \/ \E k \in 1..Len(S.queue) : S.queue[k] = id
    \/ S.timers[id] >= 0
    \/ S.audio[id].onMeta /\ S.audio[id].meta = "none"
    \/ S.audio[id].play \in {"pending", "playing", "atEnd"}

\* what is kept of a chunk nothing references any more
Collected(ch) ==
    [frames |-> <<>>, timesRaw |-> <<>>, times |-> <<>>, duration |-> 0,
     audioEl |-> FALSE, sinceStart |-> ClockCap, fadeInFrom |-> ZeroPose,
     done |-> ch.done, begun |-> ch.begun]

\* assigns the closure state from S; unreferenced chunks are collected
SetSched(S) ==
    \E T \in {S} :
        /\ queue' = T.queue
        /\ active' = T.active
        /\ chunks' = [id \in 1..Len(T.chunks) |->
                        IF Live(T, id) THEN T.chunks[id]
                        ELSE Collected(T.chunks[id])]
        /\ audio' = [id \in 1..Len(T.audio) |->
                        IF Live(T, id) THEN T.audio[id] ELSE NewAudio]
        /\ timers' = T.timers

\* ------------------------------------------------------------------ inputs
\* a 15-wide row: channel 0 (jaw) is a, channel 1 is b, the others 0
Row(a, b) == [i \in 1..COLS |-> IF i = 1 THEN a ELSE IF i = 2 THEN b ELSE 0]

NoHints == [viseme_times |-> <<>>, frame_ms |-> 0, viseme_fps |-> 0,
            duration_ms |-> 0]

\* AudioChunkMsg: two well-formed rows (one value above 1, one not a number),
\* a duration hint, no audio
MsgPlain == [viseme |-> <<Row(0, NaN), Row(150, 0)>>, audio |-> FALSE,
             hints |-> [NoHints EXCEPT !.duration_ms = 40]]
\* the same rows with an audio payload and no timing hint
MsgAudio == [viseme |-> <<Row(0, NaN), Row(150, 0)>>, audio |-> TRUE,
             hints |-> NoHints]
\* rows with fewer than 15 elements
MsgShort == [viseme |-> << <<100>>, <<60, 40>> >>, audio |-> FALSE,
             hints |-> NoHints]

\* three full rows with explicit per-frame timestamps (0 s, 0.5 s, 1 s), no
\* audio and no other hint
MsgTimed == [viseme |-> <<Row(0, 0), Row(100, 0), Row(0, 0)>>, audio |-> FALSE,
             hints |-> [NoHints EXCEPT !.viseme_times = <<0, 500, 1000>>]]

\* no rows at all
MsgEmpty == [viseme |-> <<>>, audio |-> FALSE, hints |-> NoHints]

Msgs == {MsgPlain, MsgAudio, MsgShort}
\* the messages whose playback clock getFrame reads
ClockMsgs == {MsgPlain, MsgAudio}
\* the messages followed until the scheduler is idle again
IdleMsgs == {MsgPlain, MsgShort}
\* the messages followed until the queue has drained
DrainMsgs == {MsgPlain, MsgEmpty}
\* the messages whose time axis is followed from pushChunk to activation
\* three rows with two timestamps, and two rows with three timestamps
MsgFewTimes == [viseme |-> <<Row(0, 0), Row(100, 0), Row(50, 0)>>,
                audio |-> FALSE,
                hints |-> [NoHints EXCEPT !.viseme_times = <<0, 500>>]]
MsgManyTimes == [viseme |-> <<Row(0, 0), Row(50, 0)>>, audio |-> FALSE,
                 hints |-> [NoHints EXCEPT !.viseme_times = <<0, 30, 60>>,
                                           !.duration_ms = 60]]
\* four full rows that vary in two channels, over 60 ms
MsgFour == [viseme |-> <<Row(0, 100), Row(100, 50), Row(30, 0), Row(70, 70)>>,
            audio |-> FALSE,
            hints |-> [NoHints EXCEPT !.duration_ms = 60]]
\* two rows with timestamps 0 s and 0.1 s and an audio payload
MsgAudioTimed == [viseme |-> <<Row(20, 0), Row(80, 0)>>, audio |-> TRUE,
                  hints |-> [NoHints EXCEPT !.viseme_times = <<0, 100>>]]
\* a single row (its raw axis is [0]) with an audio payload
MsgOneAudio == [viseme |-> <<Row(40, 0)>>, audio |-> TRUE, hints |-> NoHints]
AxisMsgs == {MsgTimed, MsgFewTimes, MsgManyTimes, MsgFour, MsgAudioTimed,
             MsgOneAudio}
PoseMsgs == {MsgPlain, MsgShort}

\* what loadedmetadata may report as the element's duration
MetaDurations == {AudioLenMs, Inf}

\* buildTimes alone: the frame counts and hints it is applied to
TimesHints == { <<>>, <<7>>, <<0, 500, 1000>>, <<500, 1000>>, <<0, 400, 200>>,
                <<0, NaN, 300>>, <<0 - 100, 50>>, <<0, 10, 20, 30, 40>> }
TimesInputs ==
    [framesN : 1..MaxTimesN,
     msg : [viseme_times : TimesHints, frame_ms : {0, 11}, viseme_fps : {0, 90},
            duration_ms : {0, 1000, 5, 0 - 40, NaN}]]
NoTimesIn == [framesN |-> 0, msg |-> NoHints]
NoTimesOut == [done |-> FALSE, times |-> <<>>]

\* the page around the scheduler, after its components have mounted
NoQueued == 0
InitApp ==
    /\ versionRef = 0
    /\ queuedAI = NoQueued
    /\ incoming = 0
    /\ userActive = FALSE
    /\ wsCandidates = 0
    /\ wsIdx = 0
    /\ sockets = <<>>
    /\ wsRef = 0
    /\ connected = FALSE
    /\ unmounted = FALSE
    /\ wsLog = <<>>
    /\ micState = "idle"
    /\ micWait = 0
    /\ recs = <<>>
    /\ recorderRef = 0
    /\ recChunks = <<>>
    /\ pttSent = <<>>

\* ----------------------------------------------------------------- actions
Init ==
    /\ queue = <<>>
    /\ active = NoChunk
    /\ muted = FALSE
    /\ chunks = <<>>
    /\ audio = <<>>
    /\ timers = <<>>
    /\ pos = ZeroPose
    /\ vel = ZeroPose
    /\ sinceTick = 0
    /\ nFrames = 0
    /\ lastOp = "init"
    /\ tIn = NoTimesIn
    /\ tOut = NoTimesOut
    /\ InitApp

\* the rows of msg.viseme as pushChunk stores them
toFrames(viseme) ==
    [k \in 1..Len(viseme) |->
        [i \in 1..Min2(Len(viseme[k]), COLS) |->
            clamp01(NumOrZero(viseme[k][i]))]]

\* the Chunk object pushChunk builds, under mute flag m
newChunk(msg, m) ==
    LET frames == toFrames(msg.viseme)
    IN  [frames |-> frames,
         timesRaw |-> buildTimes(Len(frames), msg.hints),
         times |-> <<>>,
         duration |-> Max2(MinDurMs, NumOrZero(msg.hints.duration_ms)),
         audioEl |-> msg.audio /\ ~m,
         sinceStart |-> ClockCap,
         fadeInFrom |-> ZeroPose,
         done |-> FALSE,
         begun |-> FALSE]

\* pushChunk whose startNext replaces the active chunk
pushChunkPreempts(msg) ==
    /\ Len(chunks) < MaxChunks
    /\ LET id == Len(chunks) + 1
           S0 == [queue |-> Append(queue, id), active |-> active,
                  chunks |-> Append(chunks, newChunk(msg, muted)),
                  audio |-> Append(audio, NewAudio),
                  timers |-> Append(timers, -1)]
       IN  SetSched(startNextNoGuard(S0, muted, pos))
    /\ lastOp' = "pushChunk"
    /\ UNCHANGED <<muted, pos, vel, sinceTick, nFrames, tIn, tOut, appVars>>

pushChunk(msg) ==
    /\ Len(chunks) < MaxChunks
    /\ LET id == Len(chunks) + 1
           S0 == [queue |-> Append(queue, id), active |-> active,
                  chunks |-> Append(chunks, newChunk(msg, muted)),
                  audio |-> Append(audio, NewAudio),
                  timers |-> Append(timers, -1)]
       IN  SetSched(startNext(S0, muted, pos))
    /\ lastOp' = "pushChunk"
    /\ UNCHANGED <<muted, pos, vel, sinceTick, nFrames, tIn, tOut, appVars>>

\* the clock of getFrame without its clamps
playbackTUnclamped(ch, el) ==
    IF ch.audioEl THEN el.currentTime ELSE ch.sinceStart

\* the clock read by getFrame: elapsed time within chunk ch, element el
playbackT(ch, el) ==
    IF ch.audioEl THEN Max2(0, Min2(el.currentTime, ch.duration))
    ELSE Min2(Max2(0, ch.sinceStart), ch.duration)

\* the idle test of getFrame
IdlePath(a, cs) ==
    IF a = NoChunk THEN TRUE
    ELSE Len(cs[a].frames) = 0 \/ Len(cs[a].times) = 0

\* the crossfaded target pose of the active chunk ch
target(ch, el) ==
    LET tmp == sampleCatmullRom(ch, playbackT(ch, el))
    IN  IF ch.sinceStart < CrossfadeMs
        THEN [i \in 1..COLS |->
                 lerp(ch.fadeInFrom[i], tmp[i],
                      CrossfadeMs - Max2(0, CrossfadeMs - ch.sinceStart),
                      CrossfadeMs)]
        ELSE tmp

getFrame ==
    /\ nFrames < MaxFrames
    /\ LET dt == Max2(DtMinMs, Min2(DtMaxMs, sinceTick))
       IN  IF IdlePath(active, chunks)
           THEN /\ pos' = [i \in 1..COLS |-> relax(pos[i], decayK(dt))]
                /\ vel' = [i \in 1..COLS |-> relax(vel[i], decayK(dt))]
           ELSE LET tg == target(chunks[active], audio[active])
                    pv == [i \in 1..COLS |-> spring(i, tg[i], pos[i], vel[i], dt)]
                IN  /\ pos' = [i \in 1..COLS |-> pv[i][1]]
                    /\ vel' = [i \in 1..COLS |-> pv[i][2]]
    /\ sinceTick' = 0
    /\ nFrames' = nFrames + 1
    /\ lastOp' = "getFrame"
    /\ UNCHANGED <<queue, active, muted, chunks, audio, timers, tIn, tOut, appVars>>

\* getFrame() on its idle path, called by a render loop whose calls are at
\* least DtMaxMs apart (dt is clamped to DtMaxMs).  These calls are not
\* counted in nFrames: the relaxation only lowers the pose, so any number of
\* them is followed.
idleFrame ==
    /\ IdlePath(active, chunks)
    /\ sinceTick = DtMaxMs
    /\ LET dt == Max2(DtMinMs, Min2(DtMaxMs, sinceTick))
       IN  /\ pos' = [i \in 1..COLS |-> relax(pos[i], decayK(dt))]
           /\ vel' = [i \in 1..COLS |-> relax(vel[i], decayK(dt))]
    /\ sinceTick' = 0
    /\ lastOp' = "getFrame"
    /\ UNCHANGED <<queue, active, muted, chunks, audio, timers, nFrames,
                   tIn, tOut, appVars>>

\* setMuted that also freezes the filter when it mutes
setMutedFreezes(v) ==
    /\ muted' = v
    /\ audio' = IF v /\ active # NoChunk /\ chunks[active].audioEl
                THEN [audio EXCEPT ![active] = pause(audio[active])]
                ELSE audio
    /\ vel' = IF v THEN ZeroPose ELSE vel
    /\ lastOp' = "setMuted"
    /\ UNCHANGED <<queue, active, chunks, timers, pos, sinceTick,
                   nFrames, tIn, tOut, appVars>>

setMuted(v) ==
    /\ muted' = v
    /\ audio' = IF v /\ active # NoChunk /\ chunks[active].audioEl
                THEN [audio EXCEPT ![active] = pause(audio[active])]
                ELSE audio
    /\ lastOp' = "setMuted"
    /\ UNCHANGED <<queue, active, chunks, timers, pos, vel, sinceTick,
                   nFrames, tIn, tOut, appVars>>

\* stop() as a normal completion: the queue is kept and its head activated
stopActivatesNext ==
    /\ SetSched(startNext([Sched EXCEPT !.active = NoChunk], muted, pos))
    /\ lastOp' = "stop"
    /\ UNCHANGED <<muted, pos, vel, sinceTick, nFrames, tIn, tOut, appVars>>

\* stop() that also snaps the pose to neutral
stopResetsPose ==
    /\ queue' = <<>>
    /\ audio' = IF active # NoChunk /\ chunks[active].audioEl
                THEN [audio EXCEPT ![active] = pause(audio[active])]
                ELSE audio
    /\ active' = NoChunk
    /\ pos' = ZeroPose
    /\ vel' = ZeroPose
    /\ lastOp' = "stop"
    /\ UNCHANGED <<muted, chunks, timers, sinceTick, nFrames, tIn, tOut, appVars>>

\* stop() that forgets to empty the queue
stopKeepsQueue ==
    /\ SetSched([Sched EXCEPT
          !.audio = IF active # NoChunk /\ chunks[active].audioEl
                    THEN [audio EXCEPT ![active] = pause(audio[active])]
                    ELSE audio,
          !.active = NoChunk])
    /\ lastOp' = "stop"
    /\ UNCHANGED <<muted, pos, vel, sinceTick, nFrames, tIn, tOut, appVars>>

stop ==
    /\ SetSched([Sched EXCEPT
          !.queue = <<>>,
          !.audio = IF active # NoChunk /\ chunks[active].audioEl
                    THEN [audio EXCEPT ![active] = pause(audio[active])]
                    ELSE audio,
          !.active = NoChunk])
    /\ lastOp' = "stop"
    /\ UNCHANGED <<muted, pos, vel, sinceTick, nFrames, tIn, tOut, appVars>>

\* ------------------------------------------------- environment and callbacks
\* The element of chunk id can still be read or heard from: its duration is
\* read only by startNext (chunk still queued) and by its onMeta listener.
Observed(id) == audio[id].onMeta \/ \E k \in 1..Len(queue) : queue[k] = id

\* a callback is ready to run: the event loop runs it before time advances
Due == \E id \in 1..Len(chunks) : timers[id] = 0 \/ audio[id].play = "atEnd"

\* TickMs of wall-clock time pass
Tick ==
    /\ ~Due
    /\ sinceTick' = Min2(DtMaxMs, sinceTick + TickMs)
    /\ chunks' = [id \in 1..Len(chunks) |->
                    IF id = active /\ chunks[id].begun
                    THEN [chunks[id] EXCEPT
                            !.sinceStart = Min2(ClockCap, @ + TickMs)]
                    ELSE chunks[id]]
    /\ audio' = [id \in 1..Len(audio) |->
                    IF audio[id].play = "playing"
                    THEN LET ct == Min2(AudioLenMs, audio[id].currentTime + TickMs)
                         IN  [audio[id] EXCEPT
                                !.currentTime = ct,
                                !.play = IF ct >= AudioLenMs THEN "atEnd"
                                         ELSE "playing"]
                    ELSE audio[id]]
    /\ timers' = [id \in 1..Len(timers) |->
                    IF timers[id] > 0 THEN Max2(0, timers[id] - TickMs)
                    ELSE timers[id]]
    /\ UNCHANGED <<queue, active, muted, pos, vel, nFrames, lastOp, tIn, tOut, appVars>>

\* the element of chunk id loads its metadata and fires loadedmetadata
MetaLoaded(id, d) ==
    /\ chunks[id].audioEl
    /\ audio[id].meta = "none"
    /\ Observed(id)
    /\ LET S0 == [Sched EXCEPT !.audio[id].meta = "loaded",
                               !.audio[id].duration = d]
       IN  IF audio[id].onMeta
           THEN SetSched(onMeta(S0, id, muted, pos))
           ELSE SetSched(S0)
    /\ UNCHANGED <<muted, pos, vel, sinceTick, nFrames, lastOp, tIn, tOut, appVars>>

\* the element of chunk id fails to load: loadedmetadata never arrives
MetaError(id) ==
    /\ chunks[id].audioEl
    /\ audio[id].meta = "none"
    /\ Observed(id)
    /\ SetSched([Sched EXCEPT !.audio[id].meta = "error"])
    /\ UNCHANGED <<muted, pos, vel, sinceTick, nFrames, lastOp, tIn, tOut, appVars>>

\* play() of chunk id's element takes effect
PlayStarted(id) ==
    /\ audio[id].play = "pending"
    /\ audio' = [audio EXCEPT ![id].play = "playing"]
    /\ UNCHANGED <<queue, active, muted, chunks, timers, pos, vel, sinceTick,
                   nFrames, lastOp, tIn, tOut, appVars>>

\* play() of chunk id's element is rejected (autoplay policy); .catch(()=>{})
PlayRejected(id) ==
    /\ audio[id].play = "pending"
    /\ SetSched([Sched EXCEPT !.audio[id].play = "rejected"])
    /\ UNCHANGED <<muted, pos, vel, sinceTick, nFrames, lastOp, tIn, tOut, appVars>>

\* the element of chunk id fires ended
AudioEnded(id) ==
    /\ audio[id].play = "atEnd"
    /\ LET S0 == [Sched EXCEPT !.audio[id].play = "ended"]
       IN  IF audio[id].onended
           THEN SetSched(complete(S0, id, muted, pos))
           ELSE SetSched(S0)
    /\ UNCHANGED <<muted, pos, vel, sinceTick, nFrames, lastOp, tIn, tOut, appVars>>

\* the fallback timer of chunk id fires
TimerFire(id) ==
    /\ timers[id] = 0
    /\ SetSched(complete([Sched EXCEPT !.timers[id] = -1], id, muted, pos))
    /\ UNCHANGED <<muted, pos, vel, sinceTick, nFrames, lastOp, tIn, tOut, appVars>>

Ids == 1..Len(chunks)

Callbacks ==
    \/ \E id \in Ids, d \in MetaDurations : MetaLoaded(id, d)
    \/ \E id \in Ids : MetaError(id)
    \/ \E id \in Ids : PlayStarted(id)
    \/ \E id \in Ids : PlayRejected(id)
    \/ \E id \in Ids : AudioEnded(id)
    \/ \E id \in Ids : TimerFire(id)

\* every operation on every input, time and every callback
Next ==
    \/ \E msg \in Msgs : pushChunk(msg)
    \/ getFrame
    \/ \E v \in BOOLEAN : setMuted(v)
    \/ stop
    \/ Tick
    \/ Callbacks

Spec == Init /\ [][Next]_vars

\* the queue and the playback clock alone: no getFrame, the pose stays neutral
NextSched ==
    \/ \E msg \in Msgs : pushChunk(msg)
    \/ \E v \in BOOLEAN : setMuted(v)
    \/ stop
    \/ Tick
    \/ Callbacks

SpecSched == Init /\ [][NextSched]_vars

\* the same with no stop()
NextNoStop ==
    \/ \E msg \in Msgs : pushChunk(msg)
    \/ \E v \in BOOLEAN : setMuted(v)
    \/ Tick
    \/ Callbacks

SpecNoStop == Init /\ [][NextNoStop]_vars

\* What the browser guarantees: time passes, a due timer fires, a loading
\* element reports its metadata or an error, play() is settled, ended fires.
TimeFair ==
    /\ WF_vars(Tick)
    /\ \A id \in 1..MaxChunks : WF_vars(id \in Ids /\ TimerFire(id))
    /\ \A id \in 1..MaxChunks : WF_vars(id \in Ids /\ AudioEnded(id))

\* no stop(), and media that never fail: metadata arrives and play() starts
NextMediaOk ==
    \/ \E msg \in Msgs : pushChunk(msg)
    \/ \E v \in BOOLEAN : setMuted(v)
    \/ Tick
    \/ \E id \in Ids, d \in MetaDurations : MetaLoaded(id, d)
    \/ \E id \in Ids : PlayStarted(id)
    \/ \E id \in Ids : AudioEnded(id)
    \/ \E id \in Ids : TimerFire(id)

SpecFair ==
    /\ Init /\ [][NextMediaOk]_vars
    /\ TimeFair
    /\ \A id \in 1..MaxChunks :
          /\ WF_vars(id \in Ids /\ \E d \in MetaDurations : MetaLoaded(id, d))
          /\ WF_vars(id \in Ids /\ PlayStarted(id))

\* no stop(), and media that may fail
SpecFairFail ==
    /\ Init /\ [][NextNoStop]_vars
    /\ TimeFair
    /\ \A id \in 1..MaxChunks :
          /\ WF_vars(id \in Ids /\ ((\E d \in MetaDurations : MetaLoaded(id, d))
                                      \/ MetaError(id)))
          /\ WF_vars(id \in Ids /\ (PlayStarted(id) \/ PlayRejected(id)))

\* the pose pipeline: every operation, chunks without an audio payload
NextPose ==
    \/ \E msg \in PoseMsgs : pushChunk(msg)
    \/ getFrame
    \/ \E v \in BOOLEAN : setMuted(v)
    \/ stop
    \/ Tick
    \/ \E id \in Ids : TimerFire(id)

SpecPose == Init /\ [][NextPose]_vars

\* chunks without audio played to their end and the idle relaxation after
\* them: no stop(); the render loop keeps calling getFrame
NextIdle ==
    \/ \E msg \in IdleMsgs : pushChunk(msg)
    \/ getFrame
    \/ idleFrame
    \/ Tick
    \/ \E id \in Ids : TimerFire(id)

SpecIdle ==
    /\ Init /\ [][NextIdle]_vars
    /\ WF_vars(Tick)
    /\ WF_vars(idleFrame)
    /\ \A id \in 1..MaxChunks : WF_vars(id \in Ids /\ TimerFire(id))

\* getFrame reading both clocks (the element's position and the wall
\* clock): media that load and play, no setMuted(), no stop()
NextClock ==
    \/ \E msg \in ClockMsgs : pushChunk(msg)
    \/ getFrame
    \/ Tick
    \/ \E id \in Ids, d \in MetaDurations : MetaLoaded(id, d)
    \/ \E id \in Ids : PlayStarted(id)
    \/ \E id \in Ids : AudioEnded(id)
    \/ \E id \in Ids : TimerFire(id)

SpecClock == Init /\ [][NextClock]_vars

\* chunks without audio, some without frames, played to their end: no stop()
NextDrain ==
    \/ \E msg \in DrainMsgs : pushChunk(msg)
    \/ getFrame
    \/ Tick
    \/ \E id \in Ids : TimerFire(id)

SpecDrain ==
    /\ Init /\ [][NextDrain]_vars
    /\ WF_vars(Tick)
    /\ \A id \in 1..MaxChunks : WF_vars(id \in Ids /\ TimerFire(id))

\* the time axis of a chunk from pushChunk to its completion: no getFrame,
\* no stop()
NextAxis ==
    \/ \E msg \in AxisMsgs : pushChunk(msg)
    \/ \E v \in BOOLEAN : setMuted(v)
    \/ Tick
    \/ \E id \in Ids, d \in MetaDurations : MetaLoaded(id, d)
    \/ \E id \in Ids : PlayStarted(id)
    \/ \E id \in Ids : AudioEnded(id)
    \/ \E id \in Ids : TimerFire(id)

SpecAxis == Init /\ [][NextAxis]_vars

\* buildTimes alone, on every input of TimesInputs
InitTimes ==
    /\ queue = <<>>
    /\ active = NoChunk
    /\ muted = FALSE
    /\ chunks = <<>>
    /\ audio = <<>>
    /\ timers = <<>>
    /\ pos = ZeroPose
    /\ vel = ZeroPose
    /\ sinceTick = 0
    /\ nFrames = 0
    /\ lastOp = "init"
    /\ tIn \in TimesInputs
    /\ tOut = NoTimesOut
    /\ InitApp

BuildTimesCall ==
    /\ ~tOut.done
    /\ tOut' = [done |-> TRUE, times |-> buildTimes(tIn.framesN, tIn.msg)]
    /\ UNCHANGED <<schedVars, tIn, appVars>>

SpecTimes == InitTimes /\ [][BuildTimesCall]_vars

\* ------------------------------------------------- SlidesPane: version gate
\* the effect on the incoming prop, for an update that carries version v
\* (0: none, Number(incoming.version || versionRef.current))
SlidesIncoming(v) ==
    /\ incoming' = v
    /\ LET next == IF v # 0 THEN v ELSE versionRef
       IN  IF next <= versionRef
           THEN UNCHANGED <<versionRef, queuedAI>>
           ELSE IF userActive
           THEN queuedAI' = next /\ UNCHANGED versionRef
           ELSE versionRef' = next /\ UNCHANGED queuedAI
    /\ UNCHANGED <<userActive, schedVars, tIn, tOut, wsVars, pttVars>>

\* markEdited(): the user types
MarkEdited ==
    /\ ~userActive
    /\ userActive' = TRUE
    /\ UNCHANGED <<versionRef, queuedAI, incoming, schedVars, tIn, tOut,
                   wsVars, pttVars>>

\* 900 ms pass without an edit
EditQuiet ==
    /\ userActive
    /\ userActive' = FALSE
    /\ UNCHANGED <<versionRef, queuedAI, incoming, schedVars, tIn, tOut,
                   wsVars, pttVars>>

\* the Apply button of the queued-update banner
applyQueued ==
    /\ queuedAI # NoQueued
    /\ queuedAI' = NoQueued
    /\ versionRef' = queuedAI
    /\ UNCHANGED <<incoming, userActive, schedVars, tIn, tOut, wsVars, pttVars>>

\* the Discard button
discardQueued ==
    /\ queuedAI # NoQueued
    /\ queuedAI' = NoQueued
    /\ UNCHANGED <<versionRef, incoming, userActive, schedVars, tIn, tOut,
                   wsVars, pttVars>>

NextSlides ==
    \/ \E v \in 0..MaxVersion : SlidesIncoming(v)
    \/ MarkEdited
    \/ EditQuiet
    \/ applyQueued
    \/ discardQueued

SpecSlides == Init /\ [][NextSlides]_vars

\* ------------------------------------------------------ openWS and its wiring
Endpoints == 2        \* [proxyUrl(tid), directUrl(tid)]
HANDSHAKE_FAILURES == {1006, 4403, 4000, 4004, 4005}
\* the close codes a socket that has opened may report
CloseCodes == {1000, 1001, 1006, 4403}
\* `closed` is declared false and never assigned
wsClosed == FALSE

\* ws.close(1001, ...) on socket k of S (no socket when k = 0)
closeSocket(S, k) ==
    IF k # 0 /\ S[k].state \in {"connecting", "open"}
    THEN [S EXCEPT ![k].state = "closing"]
    ELSE S

\* sched.stop() called from the page
schedStop ==
    /\ SetSched([Sched EXCEPT
          !.queue = <<>>,
          !.audio = IF active # NoChunk /\ chunks[active].audioEl
                    THEN [audio EXCEPT ![active] = pause(audio[active])]
                    ELSE audio,
          !.active = NoChunk])
    /\ lastOp' = "stop"
    /\ UNCHANGED <<muted, pos, vel, sinceTick, nFrames>>

\* h.onClose(code) as the chat component wires it, with the sockets left as S
reportClose(S) ==
    /\ sockets' = S
    /\ wsLog' = Append(wsLog, "close")
    /\ IF unmounted
       THEN UNCHANGED <<connected, schedVars>>
       ELSE connected' = FALSE /\ schedStop
    /\ UNCHANGED <<wsIdx, wsRef>>

\* tryNext() with n candidates, with the sockets left as S
tryNext(S, n) ==
    IF wsClosed THEN sockets' = S /\ UNCHANGED <<wsIdx, wsRef, connected, wsLog, schedVars>>
    ELSE IF wsIdx >= n THEN reportClose(S)
    ELSE /\ wsIdx' = wsIdx + 1
         /\ sockets' = Append(closeSocket(S, wsRef),
                              [state |-> "connecting", opened |-> FALSE,
                               url |-> wsIdx + 1])
         /\ wsRef' = Len(S) + 1
         /\ UNCHANGED <<connected, wsLog, schedVars>>

\* the thread id is known: the candidates are built and tryNext() is called
WsStart ==
    /\ wsCandidates = 0
    /\ \E n \in 1..Endpoints :
          /\ wsCandidates' = n
          /\ tryNext(sockets, n)
    /\ UNCHANGED <<unmounted, tIn, tOut, slidesVars, pttVars>>

\* socket k opens: ws.onopen
SocketOpen(k) ==
    /\ sockets[k].state = "connecting"
    /\ sockets' = [sockets EXCEPT ![k].state = "open", ![k].opened = TRUE]
    /\ wsLog' = Append(wsLog, "open")
    /\ connected' = IF unmounted THEN connected ELSE TRUE
    /\ UNCHANGED <<wsCandidates, wsIdx, wsRef, unmounted, schedVars, tIn, tOut,
                   slidesVars, pttVars>>

\* socket k closes with the given code: ws.onclose.  A socket that never
\* opened reports 1006.
SocketClose(k, code) ==
    /\ sockets[k].state \in {"connecting", "open", "closing"}
    /\ sockets[k].opened \/ code = 1006
    /\ LET S == [sockets EXCEPT ![k].state = "closed"]
       IN  IF ~wsClosed /\ code \in HANDSHAKE_FAILURES /\ wsIdx < wsCandidates
           THEN tryNext(S, wsCandidates)
           ELSE reportClose(S)
    /\ UNCHANGED <<wsCandidates, unmounted, tIn, tOut, slidesVars, pttVars>>

\* socket k delivers an audio_response: onMsg hands it to sched.pushChunk
WsMsgs == {MsgPlain}
SocketMessage(k, msg) ==
    /\ sockets[k].state = "open"
    /\ pushChunk(msg)

\* the cleanup of the wiring effect
Unmount ==
    /\ ~unmounted
    /\ unmounted' = TRUE
    /\ sockets' = closeSocket(sockets, wsRef)
    /\ wsRef' = 0
    /\ schedStop
    /\ UNCHANGED <<wsCandidates, wsIdx, connected, wsLog, tIn, tOut,
                   slidesVars, pttVars>>

NextWs ==
    \/ WsStart
    \/ \E k \in 1..Len(sockets) : SocketOpen(k)
    \/ \E k \in 1..Len(sockets), code \in CloseCodes : SocketClose(k, code)
    \/ \E k \in 1..Len(sockets), msg \in WsMsgs : SocketMessage(k, msg)
    \/ Unmount

SpecWs == Init /\ [][NextWs]_vars

\* -------------------------------------------------------------------- usePTT
\* startPTT() up to its await of ensureMic()
startPTT ==
    /\ micWait + Len(recs) < MaxRecordings
    /\ micState' = "recording"
    /\ micWait' = micWait + 1
    /\ UNCHANGED <<recs, recorderRef, recChunks, pttSent, schedVars, tIn, tOut,
                   slidesVars, wsVars>>

\* ensureMic() resolves with a stream: the rest of startPTT
MicGranted ==
    /\ micWait > 0
    /\ micWait' = micWait - 1
    /\ recs' = Append(recs, [state |-> "recording", events |-> {},
                             cancelled |-> FALSE])
    /\ recorderRef' = Len(recs) + 1
    /\ recChunks' = <<>>
    /\ UNCHANGED <<micState, pttSent, schedVars, tIn, tOut, slidesVars, wsVars>>

\* ensureMic() resolves with null
MicDenied ==
    /\ micWait > 0
    /\ micWait' = micWait - 1
    /\ micState' = "denied"
    /\ UNCHANGED <<recs, recorderRef, recChunks, pttSent, schedVars, tIn, tOut,
                   slidesVars, wsVars>>

\* stopPTT(send); pttUp is stopPTT(TRUE), pttCancel is stopPTT(FALSE).
\* recorder.stop() throws on a recorder that is inactive; on a recording one
\* it queues the dataavailable and the stop event.
stopPTT(send) ==
    /\ IF recorderRef = 0
       THEN /\ micState' = "idle"
            /\ UNCHANGED <<recs, recChunks>>
       ELSE /\ recChunks' = IF send THEN recChunks ELSE <<>>
            /\ IF recs[recorderRef].state = "recording"
               THEN /\ recs' = [recs EXCEPT
                                  ![recorderRef].state = "inactive",
                                  ![recorderRef].events = {"data", "stop"},
                                  ![recorderRef].cancelled = ~send]
                    /\ UNCHANGED micState
               ELSE /\ micState' = "idle"
                    /\ UNCHANGED recs
    /\ UNCHANGED <<micWait, recorderRef, pttSent, schedVars, tIn, tOut,
                   slidesVars, wsVars>>

\* rec.ondataavailable of recorder k, with data (size TRUE) or without
RecData(k, size) ==
    /\ "data" \in recs[k].events
    /\ recs' = [recs EXCEPT ![k].events = @ \ {"data"}]
    /\ recChunks' = IF size THEN Append(recChunks, k) ELSE recChunks
    /\ UNCHANGED <<micState, micWait, recorderRef, pttSent, schedVars, tIn,
                   tOut, slidesVars, wsVars>>

\* rec.onstop of recorder k: the blob is built, read and handed to onSend
RecStop(k) ==
    /\ "stop" \in recs[k].events
    /\ recs' = [recs EXCEPT ![k].events = @ \ {"stop"}]
    /\ pttSent' = Append(pttSent, [rec |-> k, blob |-> recChunks])
    /\ recChunks' = <<>>
    /\ micState' = "idle"
    /\ UNCHANGED <<micWait, recorderRef, schedVars, tIn, tOut, slidesVars,
                   wsVars>>

NextPtt ==
    \/ startPTT
    \/ MicGranted
    \/ MicDenied
    \/ \E send \in BOOLEAN : stopPTT(send)
    \/ \E k \in 1..Len(recs), size \in BOOLEAN : RecData(k, size)
    \/ \E k \in 1..Len(recs) : RecStop(k)

SpecPtt == Init /\ [][NextPtt]_vars

\* ------------------------------------------------------------------ claims

\* C10: for every chunk and every combination of timing hints, the raw time
\* axis built by buildTimes is non-decreasing and starts at zero.
C10_TimesMonotoneFromZero ==
    (tOut.done /\ Len(tOut.times) > 0) =>
        /\ tOut.times[1] = 0
        /\ \A i \in 2..Len(tOut.times) : tOut.times[i] >= tOut.times[i - 1]

\* chunk id has left the pending queue (queue.shift() took it, or stop() dropped it)
InQueue(id) == \E k \in 1..Len(queue) : queue[k] = id

Completed(id) == id \in Ids /\ chunks[id].done

\* C2: under fairness of timers and media events and with no stop(), every
\* chunk that becomes active eventually completes.
C2_ActiveEventuallyCompletes ==
    \A id \in 1..MaxChunks :
        [](id \in Ids /\ active = id => <>Completed(id))

\* the audio of chunk id has failed: play() was rejected, or the element
\* never delivers loadedmetadata
AudioFailed(id) ==
    chunks[id].audioEl /\ (audio[id].play = "rejected" \/ audio[id].meta = "error")

\* C3: a chunk whose audio fails is still completed (by the fallback timer),
\* so it never blocks the chunks queued behind it.
C3_FailedAudioStillCompletes ==
    \A id \in 1..MaxChunks :
        [](id \in Ids /\ active = id /\ AudioFailed(id) => <>Completed(id))

\* C4: stop() is synchronous: when it returns the queue is empty, no chunk is
\* active, no chunk that was pending has been touched (not begun, no listener,
\* no timer, no playback), and getFrame's idle test holds.
C4_StopSynchronous ==
    [][stop =>
        /\ queue' = <<>>
        /\ active' = NoChunk
        /\ IdlePath(active', chunks')
        /\ \A id \in Ids : InQueue(id) =>
              /\ ~chunks'[id].begun /\ ~chunks'[id].done
              /\ audio'[id].play = "paused" /\ ~audio'[id].onMeta
              /\ timers'[id] = -1]_vars

\* a chunk that has left the queue without completing and is not active
Abandoned(id) == ~InQueue(id) /\ active # id /\ ~chunks[id].done

\* stop() has just run on a begun active chunk and a pending one
C4_Witness ==
    /\ lastOp = "stop"
    /\ \E a, b \in Ids :
          /\ a < b /\ Abandoned(a) /\ Abandoned(b)
          /\ chunks[a].begun /\ ~chunks[b].begun

\* the clamped time step of the next getFrame
NextDt == Max2(DtMinMs, Min2(DtMaxMs, sinceTick))

\* C5: stop() does not modify the filtered pose or velocity, and the first
\* getFrame() after it returns the pre-stop pose times the idle decay factor.
C5_StopKeepsPose ==
    [][/\ lastOp' = "stop" => (pos' = pos /\ vel' = vel)
       /\ (lastOp = "stop" /\ nFrames' = nFrames + 1) =>
             pos' = [i \in 1..COLS |-> relax(pos[i], decayK(NextDt))]]_vars

\* stop() has just run on a pose that is not neutral and will not decay to
\* neutral in one tick
C5_Witness ==
    /\ lastOp = "stop"
    /\ nFrames < MaxFrames
    /\ \E a \in Ids : Abandoned(a) /\ chunks[a].begun
    /\ pos[1] > 0 /\ relax(pos[1], decayK(NextDt)) > 0

\* the active chunk is one getFrame samples (its idle test fails)
Sampling == ~IdlePath(active, chunks)

\* C6: while the mute flag is set, the elapsed time getFrame samples the
\* active chunk at keeps advancing with the wall clock up to its duration.
C6_MutedTimelineAdvances ==
    (muted /\ Sampling) =>
        playbackT(chunks[active], audio[active])
            = Min2(chunks[active].sinceStart, chunks[active].duration)

\* C7: while the mute flag is set, no chunk's audio is playing.
C7_MutedNothingPlays ==
    muted => \A id \in Ids : audio[id].play # "playing"

\* C8: every channel getFrame returns is a number in [0,1].
C8_PoseInRange ==
    \A i \in 1..COLS : ~IsNaN(pos[i]) /\ pos[i] >= 0 /\ pos[i] <= One

\* chunk ch with every row padded with zeros to COLS elements
ZeroPadded(ch) ==
    [ch EXCEPT !.frames =
        [k \in 1..Len(ch.frames) |->
            [i \in 1..COLS |-> IF i <= Len(ch.frames[k]) THEN ch.frames[k][i]
                               ELSE 0]]]

\* C9: a row with fewer than 15 elements behaves exactly like the same row
\* padded with zeros: the target pose of the active chunk is the target pose
\* of its zero-padded copy.
C9_ShortRowsAsZeroPadded ==
    Sampling =>
        target(chunks[active], audio[active])
            = target(ZeroPadded(chunks[active]), audio[active])

\* chunk id is the Chunk pushChunk builds from msg
Built(id, msg) ==
    /\ chunks[id].frames = toFrames(msg.viseme)
    /\ chunks[id].timesRaw = buildTimes(Len(msg.viseme), msg.hints)

\* C11: a chunk with explicit per-frame timestamps, no audio and no duration
\* hint is sampled on its raw time axis: once begun its sampling axis is the
\* raw axis, its duration is the raw tail, and frames[k] is the target at the
\* elapsed time timesRaw[k].
C11_TimedChunkOnRawAxis ==
    \A id \in Ids :
        (active = id /\ chunks[id].begun /\ ~chunks[id].audioEl
            /\ Built(id, MsgTimed)) =>
            /\ chunks[id].times = chunks[id].timesRaw
            /\ chunks[id].duration = TailOrZero(chunks[id].timesRaw)
            /\ \A k \in 1..Len(chunks[id].frames) :
                  sampleCatmullRom(chunks[id],
                      Min2(chunks[id].timesRaw[k], chunks[id].duration))
                    = chunks[id].frames[k]

\* C12: every chunk accepted by pushChunk has as many times as frames, on the
\* raw axis and, once begun, on the rescaled axis.
C12_FramesAndTimesSameLength ==
    \A id \in Ids :
        /\ Len(chunks[id].timesRaw) = Len(chunks[id].frames)
        /\ chunks[id].begun => Len(chunks[id].times) = Len(chunks[id].frames)

\* other values of the three fallback hints
AltFrameMs == {0, 11, 25}
AltFps == {0, 90, 50}
AltDurationMs == {0, 1000, 40, NaN}

\* the hint buildTimes must resolve msg with
HasTimes(msg) == Len(msg.viseme_times) >= 2
HasFrameMs(msg) == ~HasTimes(msg) /\ Lt(0, msg.frame_ms)
HasFps(msg) == ~HasTimes(msg) /\ ~Lt(0, msg.frame_ms) /\ Lt(0, msg.viseme_fps)
OnlyDuration(msg) ==
    ~HasTimes(msg) /\ ~Lt(0, msg.frame_ms) /\ ~Lt(0, msg.viseme_fps)

\* C13: the hints are resolved in strict priority order (viseme_times of
\* length >= 2, frame_ms, viseme_fps, duration_ms): when a higher-priority
\* hint is present and valid, changing any lower-priority hint leaves the raw
\* time axis unchanged.
C13_HintPriority ==
    tOut.done =>
        \A f \in AltFrameMs, p \in AltFps, d \in AltDurationMs :
            /\ HasTimes(tIn.msg) =>
                  tOut.times = buildTimes(tIn.framesN,
                      [tIn.msg EXCEPT !.frame_ms = f, !.viseme_fps = p,
                                      !.duration_ms = d])
            /\ HasFrameMs(tIn.msg) =>
                  tOut.times = buildTimes(tIn.framesN,
                      [tIn.msg EXCEPT !.viseme_fps = p, !.duration_ms = d])
            /\ HasFps(tIn.msg) =>
                  tOut.times = buildTimes(tIn.framesN,
                      [tIn.msg EXCEPT !.duration_ms = d])

\* buildTimes has run on a message carrying a frame interval together with a
\* frame rate and a duration
C13_Witness ==
    /\ tOut.done /\ HasFrameMs(tIn.msg) /\ tIn.framesN >= 2
    /\ Lt(0, tIn.msg.viseme_fps) /\ Lt(0, tIn.msg.duration_ms)
    /\ tOut.times[2] = tIn.msg.frame_ms

\* C14: with only a duration hint and N >= 2 frames, buildTimes returns N
\* evenly spaced times from 0 to max(20 ms, duration).
C14_EvenSpacing ==
    (tOut.done /\ OnlyDuration(tIn.msg) /\ tIn.framesN >= 2) =>
        LET N == tIn.framesN
            D == Max2(MinDurMs, NumOrZero(tIn.msg.duration_ms))
        IN  /\ Len(tOut.times) = N
            /\ tOut.times[1] = 0
            /\ tOut.times[N] = D
            /\ \A i \in 1..N :
                  /\ (N - 1) * tOut.times[i] <= (i - 1) * D
                  /\ (i - 1) * D < (N - 1) * (tOut.times[i] + 1)

\* buildTimes has run on 4 frames with only duration_ms = 1000
C14_Witness ==
    /\ tOut.done /\ OnlyDuration(tIn.msg)
    /\ tIn.framesN = 4 /\ tIn.msg.duration_ms = 1000
    /\ tOut.times = <<0, 333, 666, 1000>>

\* the sampling axis of ch is strictly increasing and its rows are full
StrictAxis(ch) ==
    /\ \A k \in 2..Len(ch.times) : ch.times[k - 1] < ch.times[k]
    /\ \A k \in 1..Len(ch.frames) : Len(ch.frames[k]) = COLS

\* C15: for a chunk with strictly increasing times, the interpolator sampled
\* at exactly times[k] yields frames[k], for every k, first and last included.
C15_ExactAtControlPoints ==
    \A id \in Ids :
        (active = id /\ chunks[id].begun /\ StrictAxis(chunks[id])) =>
            \A k \in 1..Min2(Len(chunks[id].times), Len(chunks[id].frames)) :
                sampleCatmullRom(chunks[id], chunks[id].times[k])
                    = chunks[id].frames[k]

\* the four-frame chunk is active on a strictly increasing axis
C15_Witness ==
    \E id \in Ids :
        /\ active = id /\ chunks[id].begun /\ Built(id, MsgFour)
        /\ StrictAxis(chunks[id]) /\ Len(chunks[id].times) = 4
        /\ sampleCatmullRom(chunks[id], chunks[id].times[3]) = Row(30, 0)

\* the true duration begin() was given for the active chunk id, where the
\* state still tells: the element's finite duration when the chunk was begun
\* by its loadedmetadata listener with sound, the duration fallback of its
\* message when it has no element
KnownDuration(id) ==
    IF chunks[id].audioEl
    THEN IF audio[id].onended /\ audio[id].duration > 0 /\ audio[id].duration # Inf
         THEN {audio[id].duration}
         ELSE {}
    ELSE {Max2(MinDurMs, NumOrZero(msg.hints.duration_ms)) :
             msg \in {m \in AxisMsgs : Built(id, m)}}

Idle == active = NoChunk /\ queue = <<>>

\* every channel of the pose and of the velocity is a number below the
\* smallest positive value of the fixed-point model
Settled ==
    \A i \in 1..COLS :
        /\ ~IsNaN(pos[i]) /\ pos[i] = 0
        /\ ~IsNaN(vel[i]) /\ vel[i] = 0

\* C16: when no chunk is active and none is submitted, getFrame never raises
\* a channel of the pose, and after finitely many ticks every channel is
\* below any epsilon > 0.
C16_IdleDecay ==
    /\ [][(active = NoChunk /\ active' = NoChunk) =>
            \A i \in 1..COLS : pos'[i] <= pos[i]]_vars
    /\ (<>[]Idle => <>[]Settled)

\* chunk id is active and has no frames
EmptyActive(id) == id \in Ids /\ active = id /\ Len(chunks[id].frames) = 0

C18_PushWhileActiveAppends ==
    /\ [][(Len(chunks') = Len(chunks) + 1 /\ active # NoChunk) =>
            /\ queue' = Append(queue, Len(chunks'))
            /\ active' = active
            /\ chunks'[active] = chunks[active]
            /\ audio'[active] = audio[active]
            /\ timers'[active] = timers[active]
            /\ ~chunks'[Len(chunks')].begun]_vars
    /\ [](\A id \in Ids : InQueue(id) =>
              /\ active # id /\ ~chunks[id].begun /\ ~chunks[id].done
              /\ timers[id] = -1 /\ ~audio[id].onMeta
              /\ audio[id].play = "paused")

\* pushChunk was called during the playback of the active chunk
C18_Witness ==
    /\ lastOp = "pushChunk"
    /\ active # NoChunk /\ InQueue(Len(chunks))
    /\ chunks[active].begun /\ chunks[active].sinceStart > 0

\* C19: when the active chunk completes (ended event or fallback timer), in
\* the same step the head of the queue, if any, leaves the queue and becomes
\* the active chunk; with an empty queue the scheduler becomes idle.
C19_CompletionActivatesNext ==
    [][\A id \in 1..MaxChunks :
        (id \in Ids /\ active = id /\ ~chunks[id].done /\ chunks'[id].done) =>
            IF queue # <<>>
            THEN active' = Head(queue) /\ queue' = Tail(queue)
            ELSE active' = NoChunk /\ queue' = <<>>]_vars

\* chunk b was queued behind a, muted while pending, and begun by a's
\* completion (a chunk with an element is begun before its metadata only
\* when it is activated under mute)
C19_Witness ==
    \E a, b \in Ids :
        /\ a < b /\ Completed(a) /\ active = b
        /\ chunks[b].audioEl /\ chunks[b].begun /\ audio[b].meta = "none"

\* C21: in every getFrame() call with an active, begun chunk, the elapsed
\* time passed to the interpolator is a number in [0, chunk.duration],
\* whether it is the element's position or the wall clock since activation.
C21_ElapsedWithinDuration ==
    (Sampling /\ chunks[active].begun) =>
        LET t == playbackT(chunks[active], audio[active])
        IN  ~IsNaN(t) /\ 0 <= t /\ t <= chunks[active].duration

\* getFrame has sampled a chunk whose element has played past the chunk's
\* duration, and one whose wall clock has run past it
C21_Witness ==
    /\ lastOp = "getFrame" /\ Sampling /\ chunks[active].begun
    /\ IF chunks[active].audioEl
       THEN audio[active].currentTime > chunks[active].duration
       ELSE chunks[active].sinceStart > chunks[active].duration

\* chunk id begins in this step (begin() runs for it)
Begins(id) ==
    /\ chunks'[id].begun
    /\ IF id \in Ids THEN ~chunks[id].begun ELSE TRUE

\* C22: the crossfade seed of a chunk is the filtered pose at the instant
\* the chunk begins; a getFrame() at that instant blends to exactly the
\* seed, inside the crossfade window the blend moves linearly from the seed
\* to the interpolated target with the time since the chunk began, and from
\* the end of the window on the interpolated target passes unmodified.
C22_CrossfadeFromSeed ==
    /\ [][\A id \in 1..Len(chunks') :
             Begins(id) => chunks'[id].fadeInFrom = pos]_vars
    /\ [][(nFrames' # nFrames /\ Sampling) =>
             LET ch  == chunks[active]
                 tmp == sampleCatmullRom(ch, playbackT(ch, audio[active]))
                 tg  == target(ch, audio[active])
             IN  \A i \in 1..COLS :
                    IF ch.sinceStart = 0 THEN tg[i] = ch.fadeInFrom[i]
                    ELSE IF ch.sinceStart >= CrossfadeMs THEN tg[i] = tmp[i]
                    ELSE (~IsNaN(tmp[i]) /\ ~IsNaN(ch.fadeInFrom[i])) =>
                           tg[i] = ch.fadeInFrom[i]
                                   + ((tmp[i] - ch.fadeInFrom[i]) * ch.sinceStart)
                                     \div CrossfadeMs]_vars

C24_StaleCompletionIgnored ==
    [][\A id \in Ids :
          (Abandoned(id) /\ chunks'[id].done) =>
              (active' = active /\ queue' = queue)]_vars

\* C25: a chunk abandoned by stop() never starts its audio afterwards: a
\* loadedmetadata that arrives after the stop() calls no play() and arms
\* no completion handler for it.
C25_AbandonedNeverStarts ==
    [][\A id \in Ids :
          Abandoned(id) =>
              /\ (audio'[id].play = "pending") => (audio[id].play = "pending")
              /\ audio'[id].onended => audio[id].onended
              /\ (timers'[id] >= 0) => (timers[id] >= 0)]_vars

\* C26: whatever the interleaving of pushChunk, setMuted, stop and the
\* media callbacks, at most one chunk's audio is playing, and an audio
\* that is playing is the active chunk's.
C26_OnlyActiveAudioPlays ==
    \A id \in Ids : (audio[id].play = "playing") => (active = id)

\* C27: after every operation and callback has returned, a non-empty queue
\* implies that some chunk is active.
C27_QueuedImpliesActive ==
    (queue # <<>>) => (active # NoChunk)

\* a chunk was pushed behind an active chunk that still waits for its
\* element's metadata
C27_Witness ==
    /\ queue # <<>> /\ active # NoChunk
    /\ lastOp = "pushChunk"
    /\ ~chunks[active].begun

\* C28: the applied slides version of SlidesPane never decreases, whether
\* an incoming update is applied at once, queued while the user is editing,
\* or a queued update is applied or discarded later: versionRef is at least
\* every version applied before, so a stale update is never rendered over a
\* newer one.
C28_VersionNeverDecreases ==
    [][versionRef' >= versionRef]_vars

\* C29: openWS falls back to the next endpoint only for a socket that
\* closed before it ever opened; once onOpen has been reported, no other
\* socket is created before that socket's close has been reported through
\* onClose, so onOpen and onClose strictly alternate.
C29_FallbackOnlyBeforeOpen ==
    /\ [][(Len(sockets') > Len(sockets)) =>
             (wsLog = <<>> \/ wsLog[Len(wsLog)] = "close")]_vars
    /\ [](\A i \in 1..(Len(wsLog) - 1) : wsLog[i] # wsLog[i + 1])

\* C30: cancelling push-to-talk (pttCancel, stopPTT(false)) never sends
\* audio: whatever the order of the recorder's dataavailable and stop
\* events, onSend is not called for a recording that was cancelled.
C30_CancelNeverSends ==
    \A i \in 1..Len(pttSent) : ~recs[pttSent[i].rec].cancelled

====
